---- MODULE Spec2Model ----
(***************************************************************************)
(* Simulation core of racoon-the-game (src/src/main.ts): world generator,  *)
(* steering and jump integrator, collision and scoring, game lifecycle.    *)
(*                                                                         *)
(* Every real quantity of the source is kept as an integer number of       *)
(* thousandths (0.2 is 200, 0.008 is 8, 20 is 20000).  Math.random() and    *)
(* Date.now() are inputs: each draw is a value chosen from a small set.     *)
(***************************************************************************)
EXTENDS Integers, Sequences, FiniteSets, TLC

VARIABLES
    score,               \* distance score (thousandths)
    cloverCount,         \* collection counter
    isGameOver,
    isGameStarted,
    countdownValue,
    obstacles,           \* sequence of [x, z], in array order
    collectibles,        \* sequence of [x, z], in array order
    targetLanePosition,
    mouseX,
    lastMouseX,
    isJumping,
    jumpVelocity,
    raccoonX,            \* raccoon.position.x
    raccoonY,            \* raccoon.position.y
    countdownIntervals,  \* live setInterval timers of startCountdown
    pendingFrames,       \* outstanding requestAnimationFrame callbacks
    gameOverDisplay,     \* TRUE when the game-over panel is shown
    finalScoreDisplay,   \* distance written to the game-over panel
    finalCloverDisplay,  \* clover count written to the game-over panel
    op,                  \* history: the handler that ran last
    segLog,              \* history: the segments generated by the last handler
    physY,               \* history: y right after updateJumpPhysics in the last tick
    gameOverCalls,       \* history: calls of gameOver() since the last init()
    jumpTicks,           \* history: integration ticks of the current or last jump
    jumpStartY           \* history: y at the moment the current or last jump was accepted

vars == <<score, cloverCount, isGameOver, isGameStarted, countdownValue,
          obstacles, collectibles, targetLanePosition, mouseX, lastMouseX,
          isJumping, jumpVelocity, raccoonX, raccoonY, countdownIntervals,
          pendingFrames, gameOverDisplay, finalScoreDisplay, finalCloverDisplay,
          op, segLog, physY, gameOverCalls, jumpTicks, jumpStartY>>

---------------------------------------------------------------------------
(* Game constants, in thousandths where the source has a real number.      *)

GAME_SPEED == 200
LANE_WIDTH == 2000
LANE_COUNT == 3
OBSTACLE_DISTANCE == 20000
WORLD_DEPTH == 100000
JUMP_FORCE == 200
GRAVITY == 8
SAFE_START_DISTANCE == 40000
raccoonDefaultY == 0
RACCOON_Z == 6000
COUNTDOWN_START == 3
RECYCLE_Z == 10000
POOL_TARGET == 20
SCORE_STEP == 100
BOUNCE_AMPLITUDE == 50

Lanes == 0 .. (LANE_COUNT - 1)

\* z of the first segment of generateWorld, also the default of lastZ in moveObjects
FirstSegmentZ == -SAFE_START_DISTANCE + 15000

\* generateWorld loops while z > WorldFarZ
WorldFarZ == -WORLD_DEPTH + 15000

\* moveObjects refills while lastZ > RefillFarZ
RefillFarZ == -WORLD_DEPTH + 20000

---------------------------------------------------------------------------
(* Bounds of the model.                                                    *)

GenTicks == 2
SteerTicks == 1
JumpRunTicks == 56
RunTicks == 166

---------------------------------------------------------------------------
(* Lane geometry.                                                          *)

\* mutant: the lanes are counted from the left edge, not from the centre
getLanePosition_FromEdge(lane) == lane * LANE_WIDTH

getLanePosition(lane) == (lane - 1) * LANE_WIDTH

maxPosition == ((LANE_COUNT - 1) * LANE_WIDTH) \div 2

Max2(a, b) == IF a >= b THEN a ELSE b
\* Math.min of two values; p is bound to the pair, so that each argument
\* is evaluated once
Min2(a, b) ==
    CHOOSE m \in {IF p[1] <= p[2] THEN p[1] ELSE p[2] : p \in {<<a, b>>}} : TRUE

---------------------------------------------------------------------------
(* World generator.  A sample is the outcome of the Math.random() draws of *)
(* one generation step: lanes[l] is `random() < OBSTACLE_PROBABILITY` of    *)
(* lane l, freeLane is floor(random() * LANE_COUNT), coll[l] is            *)
(* `random() < COLLECTIBLE_PROBABILITY` of lane l (drawn only when lane l  *)
(* holds no obstacle).                                                     *)

AllSamples == [lanes : [Lanes -> BOOLEAN], freeLane : Lanes, coll : [Lanes -> BOOLEAN]]

LaneSeq == [i \in 1 .. LANE_COUNT |-> i - 1]

\* laneObstacles.every(hasObstacle => hasObstacle)
EveryLane(laneObstacles) == \A l \in Lanes : laneObstacles[l]

\* mutant: the correction is left out
FreeLaneCorrection_None(s) == s.lanes

\* mutant: the correction is applied whenever lane 0 was sampled true
FreeLaneCorrection_Eager(s) ==
    IF s.lanes[0] THEN [s.lanes EXCEPT ![s.freeLane] = FALSE] ELSE s.lanes

\* the sampled array after "make sure at least one lane is free"
FreeLaneCorrection(s) ==
    IF EveryLane(s.lanes) THEN [s.lanes EXCEPT ![s.freeLane] = FALSE] ELSE s.lanes

createObstacle(lane, z) == [x |-> getLanePosition(lane), z |-> z]

createCollectible(lane, z) == [x |-> getLanePosition(lane), z |-> z]

\* the laneObstacles.forEach of one generation step at depth z: the entities
\* pushed to obstacles and to collectibles, in lane order
SegmentObstacles(z, s) ==
    LET laneObstacles == FreeLaneCorrection(s)
        Has(l) == laneObstacles[l]
        chosen == SelectSeq(LaneSeq, Has)
    IN  [i \in 1 .. Len(chosen) |-> createObstacle(chosen[i], z)]

\* mutant: the collectible draw is taken in every lane
SegmentCollectibles_AnyLane(z, s) ==
    LET Has(l) == s.coll[l]
        chosen == SelectSeq(LaneSeq, Has)
    IN  [i \in 1 .. Len(chosen) |-> createCollectible(chosen[i], z)]

SegmentCollectibles(z, s) ==
    LET laneObstacles == FreeLaneCorrection(s)
        Has(l) == (~laneObstacles[l]) /\ s.coll[l]
        chosen == SelectSeq(LaneSeq, Has)
    IN  [i \in 1 .. Len(chosen) |-> createCollectible(chosen[i], z)]

\* what one generation step did, kept in segLog
SegmentRecord(z, s) ==
    [z |-> z, sampled |-> s.lanes, laneObstacles |-> FreeLaneCorrection(s),
     coll |-> s.coll,
     obstacles |-> SegmentObstacles(z, s), collectibles |-> SegmentCollectibles(z, s)]

\* number of iterations of the for loop of generateWorld started at z
RECURSIVE WorldLoopCount(_)
WorldLoopCount(z) ==
    IF z > WorldFarZ THEN 1 + WorldLoopCount(z - OBSTACLE_DISTANCE) ELSE 0

WorldSegments == WorldLoopCount(FirstSegmentZ)

\* generateWorld: both arrays are emptied, then the loop runs from
\* FirstSegmentZ in steps of OBSTACLE_DISTANCE; ss[i] is the sample of
\* iteration i
RECURSIVE generateWorldLoop(_, _, _, _)
generateWorldLoop(z, i, ss, w) ==
    IF z > WorldFarZ
    THEN generateWorldLoop(z - OBSTACLE_DISTANCE, i + 1, ss,
             [obstacles    |-> w.obstacles \o SegmentObstacles(z, ss[i]),
              collectibles |-> w.collectibles \o SegmentCollectibles(z, ss[i]),
              log          |-> Append(w.log, SegmentRecord(z, ss[i]))])
    ELSE w

generateWorld(ss) ==
    generateWorldLoop(FirstSegmentZ, 1, ss,
                      [obstacles |-> <<>>, collectibles |-> <<>>, log |-> <<>>])

\* obstacle.position.z += GAME_SPEED for every element of the array
Scroll(entities) ==
    [i \in 1 .. Len(entities) |-> [entities[i] EXCEPT !.z = @ + GAME_SPEED]]

\* the forEach of moveObjects walks the array it started with; an element
\* whose z passed the threshold is filtered out of the live array by identity
RECURSIVE RecycleLoop(_, _, _)
RecycleLoop(moved, i, keep) ==
    IF i > Len(moved) THEN keep
    ELSE RecycleLoop(moved, i + 1,
                     IF moved[i].z > RECYCLE_Z THEN keep \ {i} ELSE keep)

RECURSIVE Pick(_, _, _)
Pick(entities, i, keep) ==
    IF i > Len(entities) THEN <<>>
    ELSE (IF i \in keep THEN <<entities[i]>> ELSE <<>>) \o Pick(entities, i + 1, keep)

\* the loop of Recycle_InPlace: the element at index i is moved and, past
\* the threshold, cut out of the array the loop is walking
RECURSIVE InPlaceLoop(_, _)
InPlaceLoop(arr, i) ==
    IF i > Len(arr) THEN arr
    ELSE LET moved == [arr EXCEPT ![i].z = @ + GAME_SPEED]
         IN  IF moved[i].z > RECYCLE_Z
             THEN InPlaceLoop(SubSeq(moved, 1, i - 1) \o SubSeq(moved, i + 1, Len(moved)),
                              i + 1)
             ELSE InPlaceLoop(moved, i + 1)

\* mutant: the element is removed from the array that forEach is walking,
\* so the element behind a removed one is passed over
Recycle_InPlace(entities) == InPlaceLoop(entities, 1)

Recycle(entities) ==
    LET moved == Scroll(entities)
    IN  Pick(moved, 1, RecycleLoop(moved, 1, 1 .. Len(moved)))

RECURSIVE MinZ(_, _, _)
MinZ(entities, i, m) ==
    IF i > Len(entities) THEN m ELSE MinZ(entities, i + 1, Min2(m, entities[i].z))

\* mutant: the default is the base only when both arrays are empty
LastZ_EntitiesOnly(obs, cols) ==
    IF Len(obs) + Len(cols) = 0 THEN FirstSegmentZ
    ELSE MinZ(obs \o cols, 1, (obs \o cols)[1].z)

\* mutant: the base is the nearest entity, Math.max for Math.min
LastZ_Nearest(obs, cols) ==
    LET zs == {(obs \o cols)[k].z : k \in 1 .. Len(obs \o cols)} \cup {FirstSegmentZ}
    IN  CHOOSE m \in zs : \A n \in zs : n <= m

\* Math.min(...obstacles z, ...collectibles z, -SAFE_START_DISTANCE + 15)
LastZ(obs, cols) == MinZ(cols, 1, MinZ(obs, 1, FirstSegmentZ))

\* mutant: the refill does not test the far boundary
moveObjects_NoFarTest(obs, cols, started, s) ==
    IF ~started THEN [obstacles |-> obs, collectibles |-> cols, log |-> <<>>]
    ELSE
      LET o1 == Recycle(obs)
          c1 == Recycle(cols)
          lastZ == LastZ(o1, c1)
          z == lastZ - OBSTACLE_DISTANCE
      IN  IF Len(o1) + Len(c1) < POOL_TARGET
          THEN [obstacles    |-> o1 \o SegmentObstacles(z, s),
                collectibles |-> c1 \o SegmentCollectibles(z, s),
                log          |-> <<SegmentRecord(z, s)>>]
          ELSE [obstacles |-> o1, collectibles |-> c1, log |-> <<>>]

\* mutant: the new segment is placed at the base itself
moveObjects_NoSpacing(obs, cols, started, s) ==
    IF ~started THEN [obstacles |-> obs, collectibles |-> cols, log |-> <<>>]
    ELSE
      LET o1 == Recycle(obs)
          c1 == Recycle(cols)
          lastZ == LastZ(o1, c1)
          z == lastZ
      IN  IF Len(o1) + Len(c1) < POOL_TARGET /\ lastZ > RefillFarZ
          THEN [obstacles    |-> o1 \o SegmentObstacles(z, s),
                collectibles |-> c1 \o SegmentCollectibles(z, s),
                log          |-> <<SegmentRecord(z, s)>>]
          ELSE [obstacles |-> o1, collectibles |-> c1, log |-> <<>>]

\* mutant: the pool test is reversed
moveObjects_RefillWhenFull(obs, cols, started, s) ==
    IF ~started THEN [obstacles |-> obs, collectibles |-> cols, log |-> <<>>]
    ELSE
      LET o1 == Recycle(obs)
          c1 == Recycle(cols)
          lastZ == LastZ(o1, c1)
          z == lastZ - OBSTACLE_DISTANCE
      IN  IF Len(o1) + Len(c1) >= POOL_TARGET /\ lastZ > RefillFarZ
          THEN [obstacles    |-> o1 \o SegmentObstacles(z, s),
                collectibles |-> c1 \o SegmentCollectibles(z, s),
                log          |-> <<SegmentRecord(z, s)>>]
          ELSE [obstacles |-> o1, collectibles |-> c1, log |-> <<>>]

\* moveObjects, given the sample s of this tick's generation step
moveObjects(obs, cols, started, s) ==
    IF ~started THEN [obstacles |-> obs, collectibles |-> cols, log |-> <<>>]
    ELSE
      LET o1 == Recycle(obs)
          c1 == Recycle(cols)
          lastZ == LastZ(o1, c1)
          z == lastZ - OBSTACLE_DISTANCE
      IN  IF Len(o1) + Len(c1) < POOL_TARGET /\ lastZ > RefillFarZ
          THEN [obstacles    |-> o1 \o SegmentObstacles(z, s),
                collectibles |-> c1 \o SegmentCollectibles(z, s),
                log          |-> <<SegmentRecord(z, s)>>]
          ELSE [obstacles |-> o1, collectibles |-> c1, log |-> <<>>]

---------------------------------------------------------------------------
(* Physics integrator.                                                     *)

\* mutant: the upper bound of the clamp is left out
Clamp_NoUpper(t) == Max2(-maxPosition, t)

\* Math.max(-maxPosition, Math.min(maxPosition, t))
Clamp(t) == Max2(-maxPosition, Min2(maxPosition, t))

\* targetLanePosition after `+= mouseDelta * 3` and the clamp
SteerTarget(target, mouse, lastMouse) == Clamp(target + (mouse - lastMouse) * 3)

\* mutant: x is set to the target at once
EaseStep_Snap(d) == d

\* (targetLanePosition - x) * 0.1 in thousandths; the step is rounded away
\* from zero, so that x arrives at the target as the floating-point
\* iteration does and never passes it
EaseStep(d) == IF d >= 0 THEN (d + 9) \div 10 ELSE -((9 - d) \div 10)

SteerX(x, target) == x + EaseStep(target - x)

\* mutant: the landing test and clamp are left out
updateJumpPhysics_NoClamp(y, v, jumping) ==
    IF jumping
    THEN [y |-> y + v, v |-> v - GRAVITY, jumping |-> TRUE]
    ELSE [y |-> y, v |-> v, jumping |-> jumping]

\* mutant: the raccoon lands only strictly below the resting height
updateJumpPhysics_LateLanding(y, v, jumping) ==
    IF jumping
    THEN LET y1 == y + v
             v1 == v - GRAVITY
         IN  IF y1 < raccoonDefaultY
             THEN [y |-> raccoonDefaultY, v |-> 0, jumping |-> FALSE]
             ELSE [y |-> y1, v |-> v1, jumping |-> TRUE]
    ELSE [y |-> y, v |-> v, jumping |-> jumping]

\* mutant: gravity is not applied to the velocity
updateJumpPhysics_NoGravity(y, v, jumping) ==
    IF jumping
    THEN LET y1 == y + v
         IN  IF y1 <= raccoonDefaultY
             THEN [y |-> raccoonDefaultY, v |-> 0, jumping |-> FALSE]
             ELSE [y |-> y1, v |-> v, jumping |-> TRUE]
    ELSE [y |-> y, v |-> v, jumping |-> jumping]

\* updateJumpPhysics on (y, velocity, jumping)
updateJumpPhysics(y, v, jumping) ==
    IF jumping
    THEN LET y1 == y + v
             v1 == v - GRAVITY
         IN  IF y1 <= raccoonDefaultY
             THEN [y |-> raccoonDefaultY, v |-> 0, jumping |-> FALSE]
             ELSE [y |-> y1, v |-> v1, jumping |-> TRUE]
    ELSE [y |-> y, v |-> v, jumping |-> jumping]

\* Math.sin(time * 2) * 0.05 of animateRaccoonRunning, for the clock values
\* at which the sine is -1, 0 and 1
BounceSamples == {-BOUNCE_AMPLITUDE, 0, BOUNCE_AMPLITUDE}

---------------------------------------------------------------------------
(* Collision and scoring.  Box3.setFromObject is taken on the geometry of  *)
(* createRaccoon, createObstacle (standard can, scale 1) and               *)
(* createCollectible; the tilt of the raccoon is left out of its box.      *)

RACCOON_HALF_X == 400
RACCOON_HEIGHT == 1000
RACCOON_FRONT == 1150
RACCOON_BACK == 1420
OBSTACLE_HALF == 500
OBSTACLE_TOP == 1100
COLLECTIBLE_HALF == 300
COLLECTIBLE_BOTTOM == 250
COLLECTIBLE_TOP == 750

Abs(a) == IF a >= 0 THEN a ELSE -a

\* Box3.intersectsBox of the raccoon at (x, y) with a box of half-width
\* half around (e.x, e.z) spanning the heights bottom .. top
BoxesIntersect(x, y, e, half, bottom, top) ==
    /\ Abs(x - e.x) <= RACCOON_HALF_X + half
    /\ e.z + half >= RACCOON_Z - RACCOON_FRONT
    /\ e.z - half <= RACCOON_Z + RACCOON_BACK
    /\ y <= top
    /\ y + RACCOON_HEIGHT >= bottom

HitsObstacle(x, y, o) == BoxesIntersect(x, y, o, OBSTACLE_HALF, 0, OBSTACLE_TOP)

HitsCollectible(x, y, c) ==
    BoxesIntersect(x, y, c, COLLECTIBLE_HALF, COLLECTIBLE_BOTTOM, COLLECTIBLE_TOP)

\* mutant: the loop over obstacles starts at the second element
ObstacleLoop_SkipFirst(x, y, obs, i) ==
    \E k \in (i + 1) .. Len(obs) : HitsObstacle(x, y, obs[k])

\* the for-of over obstacles: TRUE when some obstacle intersects
RECURSIVE ObstacleLoop(_, _, _, _)
ObstacleLoop(x, y, obs, i) ==
    IF i > Len(obs) THEN FALSE
    ELSE IF HitsObstacle(x, y, obs[i]) THEN TRUE
    ELSE ObstacleLoop(x, y, obs, i + 1)

\* the for-of over collectibles walks the array it started with; an
\* intersected element is filtered out of the live array by identity
RECURSIVE CollectLoop(_, _, _, _, _)
CollectLoop(x, y, cols, i, keep) ==
    IF i > Len(cols) THEN keep
    ELSE CollectLoop(x, y, cols, i + 1,
                     IF HitsCollectible(x, y, cols[i]) THEN keep \ {i} ELSE keep)

\* mutant: an intersected collectible is counted but stays in the array
checkCollisions_KeepCollected(over, x, y, obs, cols) ==
    IF over THEN [hit |-> FALSE, collectibles |-> cols, collected |-> 0]
    ELSE IF ObstacleLoop(x, y, obs, 1)
    THEN [hit |-> TRUE, collectibles |-> cols, collected |-> 0]
    ELSE LET keep == CollectLoop(x, y, cols, 1, 1 .. Len(cols))
         IN  [hit |-> FALSE, collectibles |-> cols,
              collected |-> Len(cols) - Cardinality(keep)]

\* checkCollisions with the raccoon at (x, y): whether gameOver() is called,
\* the collectibles left, and the number collected
checkCollisions(over, x, y, obs, cols) ==
    IF over THEN [hit |-> FALSE, collectibles |-> cols, collected |-> 0]
    ELSE IF ObstacleLoop(x, y, obs, 1)
    THEN [hit |-> TRUE, collectibles |-> cols, collected |-> 0]
    ELSE LET keep == CollectLoop(x, y, cols, 1, 1 .. Len(cols))
         IN  [hit |-> FALSE, collectibles |-> Pick(cols, 1, keep),
              collected |-> Len(cols) - Cardinality(keep)]

\* Math.round(score)
Round(s) == (s + 500) \div 1000

---------------------------------------------------------------------------
(* Inputs.                                                                 *)

\* the outcomes of the draws of one generation step; freeLane is left at 0
\* when it is not drawn, and coll[l] of a lane that holds an obstacle is the
\* outcome the draw would have had
Samples ==
    {s \in AllSamples :
        (~EveryLane(s.lanes)) => s.freeLane = 0}

\* a generation step that creates nothing
EmptySample ==
    [lanes |-> [l \in Lanes |-> FALSE], freeLane |-> 0, coll |-> [l \in Lanes |-> FALSE]]

\* a generation step in which every lane is sampled true and the middle
\* lane is freed and left empty
FullSample ==
    [lanes |-> [l \in Lanes |-> TRUE], freeLane |-> 1, coll |-> [l \in Lanes |-> FALSE]]

\* the sample vectors of generateWorld in which at most one iteration draws
\* outside base; every iteration still sees every sample of S
OneVaries(S, base) ==
    {ss \in [1 .. WorldSegments -> S \cup base] :
        Cardinality({i \in 1 .. WorldSegments : ss[i] \notin base}) <= 1}

\* (event.clientX / window.innerWidth) * 2 - 1 at the edges of the window and
\* a quarter of its width away from them
MouseSamples == {-1000, -500, 500, 1000}

\* event.code of a key press
KeySamples == {"Space", "KeyA"}

---------------------------------------------------------------------------
(* SS is a set of sample vectors, one sample per iteration of the loop of   *)
(* generateWorld.                                                          *)
(* init(): the state it leaves, given the samples ss of generateWorld, the *)
(* bounce b of the first animate() pass it makes, the mouse position m     *)
(* and last mouse position lm, and the timers and frames already live.     *)

\* mutant: the started flag is not cleared
init_StaysStarted(ss, b, m, lm, intervals, frames) ==
    LET w == generateWorld(ss)
        t == SteerTarget(0, m, lm)
    IN  [score |-> 0, cloverCount |-> 0, isGameOver |-> FALSE,
         isGameStarted |-> TRUE, countdownValue |-> COUNTDOWN_START,
         obstacles |-> w.obstacles, collectibles |-> w.collectibles,
         targetLanePosition |-> t, lastMouseX |-> m,
         isJumping |-> FALSE, jumpVelocity |-> 0,
         raccoonX |-> SteerX(0, t), raccoonY |-> raccoonDefaultY + b,
         countdownIntervals |-> intervals + 1, pendingFrames |-> frames + 1,
         log |-> w.log]

init(ss, b, m, lm, intervals, frames) ==
    LET w == generateWorld(ss)
        t == SteerTarget(0, m, lm)
    IN  [score |-> 0, cloverCount |-> 0, isGameOver |-> FALSE,
         isGameStarted |-> FALSE, countdownValue |-> COUNTDOWN_START,
         obstacles |-> w.obstacles, collectibles |-> w.collectibles,
         targetLanePosition |-> t, lastMouseX |-> m,
         isJumping |-> FALSE, jumpVelocity |-> 0,
         raccoonX |-> SteerX(0, t), raccoonY |-> raccoonDefaultY + b,
         countdownIntervals |-> intervals + 1, pendingFrames |-> frames + 1,
         log |-> w.log]

InitWith(B, SS) ==
    \E ss \in SS, b \in B :
        \E r \in {init(ss, b, 0, 0, 0, 0)} :
            /\ score = r.score
            /\ cloverCount = r.cloverCount
            /\ isGameOver = r.isGameOver
            /\ isGameStarted = r.isGameStarted
            /\ countdownValue = r.countdownValue
            /\ obstacles = r.obstacles
            /\ collectibles = r.collectibles
            /\ targetLanePosition = r.targetLanePosition
            /\ mouseX = 0
            /\ lastMouseX = r.lastMouseX
            /\ isJumping = r.isJumping
            /\ jumpVelocity = r.jumpVelocity
            /\ raccoonX = r.raccoonX
            /\ raccoonY = r.raccoonY
            /\ countdownIntervals = r.countdownIntervals
            /\ pendingFrames = r.pendingFrames
            /\ gameOverDisplay = FALSE
            /\ finalScoreDisplay = 0
            /\ finalCloverDisplay = 0
            /\ op = "init"
            /\ segLog = r.log
            /\ physY = raccoonDefaultY
            /\ gameOverCalls = 0
            /\ jumpTicks = 0
            /\ jumpStartY = raccoonDefaultY

\* the click handler of the restart button
restartGame(B, SS) ==
    /\ \E ss \in SS, b \in B :
        \E r \in {init(ss, b, mouseX, lastMouseX, countdownIntervals, pendingFrames)} :
            /\ score' = r.score
            /\ cloverCount' = r.cloverCount
            /\ isGameOver' = r.isGameOver
            /\ isGameStarted' = r.isGameStarted
            /\ countdownValue' = r.countdownValue
            /\ obstacles' = r.obstacles
            /\ collectibles' = r.collectibles
            /\ targetLanePosition' = r.targetLanePosition
            /\ lastMouseX' = r.lastMouseX
            /\ isJumping' = r.isJumping
            /\ jumpVelocity' = r.jumpVelocity
            /\ raccoonX' = r.raccoonX
            /\ raccoonY' = r.raccoonY
            /\ countdownIntervals' = r.countdownIntervals
            /\ pendingFrames' = r.pendingFrames
            /\ segLog' = r.log
    /\ gameOverDisplay' = FALSE
    /\ op' = "restartGame"
    /\ physY' = raccoonDefaultY
    /\ gameOverCalls' = 0
    /\ jumpTicks' = 0
    /\ jumpStartY' = raccoonDefaultY
    /\ UNCHANGED <<mouseX, finalScoreDisplay, finalCloverDisplay>>

\* the restart button is part of the game-over panel: it can be clicked
\* while the panel is shown
RestartShown == gameOverDisplay

---------------------------------------------------------------------------
(* The callback of the setInterval of startCountdown.                      *)

\* mutant: the countdown ends one firing early
countdownContinues_Early(v) == v > 1

\* `if (countdownValue > 0)` on the decremented value
countdownContinues(v) == v > 0

countdownTick ==
    /\ countdownIntervals > 0
    /\ countdownValue' = countdownValue - 1
    /\ IF countdownContinues(countdownValue - 1)
       THEN UNCHANGED <<countdownIntervals, isGameStarted>>
       ELSE /\ countdownIntervals' = countdownIntervals - 1
            /\ isGameStarted' = TRUE
    /\ op' = "countdown"
    /\ segLog' = <<>>
    /\ UNCHANGED <<score, cloverCount, isGameOver, obstacles, collectibles,
                   targetLanePosition, mouseX, lastMouseX, isJumping, jumpVelocity,
                   raccoonX, raccoonY, pendingFrames, gameOverDisplay,
                   finalScoreDisplay, finalCloverDisplay, physY, gameOverCalls,
                   jumpTicks, jumpStartY>>

---------------------------------------------------------------------------
(* Input handlers.                                                         *)

onMouseMove(M) ==
    /\ \E m \in M : mouseX' = m
    /\ op' = "onMouseMove"
    /\ segLog' = <<>>
    /\ UNCHANGED <<score, cloverCount, isGameOver, isGameStarted, countdownValue,
                   obstacles, collectibles, targetLanePosition, lastMouseX,
                   isJumping, jumpVelocity, raccoonX, raccoonY, countdownIntervals,
                   pendingFrames, gameOverDisplay, finalScoreDisplay,
                   finalCloverDisplay, physY, gameOverCalls, jumpTicks, jumpStartY>>

\* mutant: a request is accepted while airborne
JumpAccepted_Rearm(key, jumping, over, started) ==
    key = "Space" /\ ~over /\ started

\* mutant: a request is accepted before the game has started
JumpAccepted_BeforeStart(key, jumping, over, started) ==
    key = "Space" /\ ~jumping /\ ~over

\* the condition under which onKeyDown calls jump() and jump() acts
JumpAccepted(key, jumping, over, started) ==
    key = "Space" /\ ~jumping /\ ~over /\ started

\* onKeyDown, with jump() inlined
onKeyDown(K) ==
    /\ \E key \in K :
         IF JumpAccepted(key, isJumping, isGameOver, isGameStarted)
         THEN /\ isJumping' = TRUE
              /\ jumpVelocity' = JUMP_FORCE
              /\ jumpTicks' = 0
              /\ jumpStartY' = raccoonY
         ELSE UNCHANGED <<isJumping, jumpVelocity, jumpTicks, jumpStartY>>
    /\ op' = "onKeyDown"
    /\ segLog' = <<>>
    /\ UNCHANGED <<score, cloverCount, isGameOver, isGameStarted, countdownValue,
                   obstacles, collectibles, targetLanePosition, mouseX, lastMouseX,
                   raccoonX, raccoonY, countdownIntervals, pendingFrames,
                   gameOverDisplay, finalScoreDisplay, finalCloverDisplay, physY,
                   gameOverCalls>>

---------------------------------------------------------------------------
(* animate(): one callback of requestAnimationFrame.  B holds the bounce   *)
(* values the clock can give, S the samples of the generation step, and a  *)
(* run is followed for at most cap ticks.                                  *)

\* mutant: gameOver() leaves the requested frame pending
cancelAnimationFrame_Missing(frames) == frames

\* cancelAnimationFrame(animationId) in gameOver(): the frame requested at the
\* top of this animate() call is withdrawn
cancelAnimationFrame(frames) == frames - 1

\* mutant: every collected clover adds 10 to the score
scoreAfterTick_CollectBonus(s, collected) == s + SCORE_STEP + collected * 10000

\* the score at the end of a tick of the started game in which checkCollisions
\* collected `collected` clovers ("increase clover count instead of score"),
\* after the `score += 0.1` that follows checkCollisions
scoreAfterTick(s, collected) == s + SCORE_STEP

\* y at the end of animateRaccoonRunning
BodyBounce(y, jumping, b) == IF ~jumping THEN raccoonDefaultY + b ELSE y

animate(B, S, cap) ==
    /\ pendingFrames > 0
    /\ (isGameStarted /\ ~isGameOver) => score < cap * SCORE_STEP
    /\ op' = "animate"
    /\ IF isGameOver
       THEN \* only renderer.render runs
            /\ segLog' = <<>>
            /\ UNCHANGED <<score, cloverCount, isGameOver, isGameStarted,
                           countdownValue, obstacles, collectibles,
                           targetLanePosition, mouseX, lastMouseX, isJumping,
                           jumpVelocity, raccoonX, raccoonY, countdownIntervals,
                           pendingFrames, gameOverDisplay, finalScoreDisplay,
                           finalCloverDisplay, physY, gameOverCalls, jumpTicks,
                           jumpStartY>>
       ELSE \E b \in B, s \in S :
            \E t \in {SteerTarget(targetLanePosition, mouseX, lastMouseX)} :
            \E x \in {SteerX(raccoonX, t)} :
            \E j \in {IF isGameStarted
                      THEN updateJumpPhysics(raccoonY, jumpVelocity, isJumping)
                      ELSE [y |-> raccoonY, v |-> jumpVelocity, jumping |-> isJumping]} :
            \E w \in {moveObjects(obstacles, collectibles, isGameStarted, s)} :
            \E c \in {IF isGameStarted
                      THEN checkCollisions(isGameOver, x, j.y, w.obstacles, w.collectibles)
                      ELSE [hit |-> FALSE, collectibles |-> w.collectibles,
                            collected |-> 0]} :
                /\ targetLanePosition' = t
                /\ lastMouseX' = mouseX
                /\ raccoonX' = x
                /\ isJumping' = j.jumping
                /\ jumpVelocity' = j.v
                /\ physY' = j.y
                /\ jumpTicks' = IF isGameStarted /\ isJumping THEN jumpTicks + 1 ELSE jumpTicks
                /\ obstacles' = w.obstacles
                /\ collectibles' = c.collectibles
                /\ segLog' = w.log
                /\ cloverCount' = cloverCount + c.collected
                /\ IF c.hit
                   THEN \* gameOver()
                        /\ isGameOver' = TRUE
                        /\ finalScoreDisplay' = Round(score)
                        /\ finalCloverDisplay' = cloverCount
                        /\ gameOverDisplay' = TRUE
                        /\ pendingFrames' = cancelAnimationFrame(pendingFrames)
                        /\ gameOverCalls' = gameOverCalls + 1
                   ELSE UNCHANGED <<isGameOver, finalScoreDisplay, finalCloverDisplay,
                                    gameOverDisplay, pendingFrames, gameOverCalls>>
                /\ score' = IF isGameStarted THEN scoreAfterTick(score, c.collected)
                                              ELSE score
                /\ raccoonY' = BodyBounce(j.y, j.jumping, b)
                /\ UNCHANGED <<isGameStarted, countdownValue, mouseX,
                               countdownIntervals, jumpStartY>>

---------------------------------------------------------------------------
(* Specifications.  Each follows the whole program from init(); they       *)
(* differ in which inputs vary.                                            *)

\* world generation: every outcome of the draws, no steering, no jump
GenWorlds == OneVaries(Samples, {FullSample})
InitGen == InitWith({0}, GenWorlds)
animateGen == animate({0}, Samples, GenTicks)
NextGen == countdownTick \/ animateGen
SpecGen == InitGen /\ [][NextGen]_vars

\* steering: the mouse moves between ticks; one fixed world, no jump
SteerWorlds == {[i \in 1 .. WorldSegments |-> FullSample]}
InitSteer == InitWith({0}, SteerWorlds)
onMouseMoveSteer == onMouseMove(MouseSamples)
animateSteer == animate({0}, {FullSample}, SteerTicks)
NextSteer == countdownTick \/ onMouseMoveSteer \/ animateSteer
SpecSteer == InitSteer /\ [][NextSteer]_vars

\* jumping: the space bar is pressed between ticks and the clock gives any
\* bounce; one fixed world whose middle lane is free, no steering
InitJump == InitWith(BounceSamples, SteerWorlds)
onKeyDownJump == onKeyDown(KeySamples)
animateJump == animate(BounceSamples, {FullSample}, JumpRunTicks)
NextJump == countdownTick \/ onKeyDownJump \/ animateJump
SpecJump == InitJump /\ [][NextJump]_vars

\* a whole run up to game over and restart: the first segment holds an
\* obstacle or a collectible in the middle lane (the obstacle alone or with a
\* collectible in the lane beside it), or leaves it empty; the space bar is
\* pressed between ticks; no steering, no bounce
ObstacleAhead ==
    [lanes |-> [l \in Lanes |-> l = 1], freeLane |-> 0, coll |-> [l \in Lanes |-> FALSE]]
CloverAhead ==
    [lanes |-> [l \in Lanes |-> FALSE], freeLane |-> 0, coll |-> [l \in Lanes |-> l = 1]]
CloverBesideObstacle ==
    [lanes |-> [l \in Lanes |-> l = 1], freeLane |-> 0, coll |-> [l \in Lanes |-> l = 2]]
RunWorlds ==
    {ss \in [1 .. WorldSegments ->
                {ObstacleAhead, CloverAhead, CloverBesideObstacle, FullSample}] :
        \A i \in 2 .. WorldSegments : ss[i] = FullSample}
Init == InitWith({0}, RunWorlds)
onKeyDownRun == onKeyDown(KeySamples)
animateRun == animate({0}, {FullSample}, RunTicks)
restartGameRun == RestartShown /\ restartGame({0}, RunWorlds)
Next == countdownTick \/ onKeyDownRun \/ animateRun \/ restartGameRun
Spec == Init /\ [][Next]_vars

\* the countdown: the mouse moves and the space bar is pressed between the
\* ticks and the timer firings of the countdown; one fixed world, no bounce
CountdownRunTicks == 1
CountdownMouse == {-500, 500}
InitCountdown == InitWith({0}, SteerWorlds)
onMouseMoveCountdown == onMouseMove(CountdownMouse)
onKeyDownCountdown == onKeyDown(KeySamples)
animateCountdown == animate({0}, {FullSample}, CountdownRunTicks)
NextCountdown ==
    countdownTick \/ onMouseMoveCountdown \/ onKeyDownCountdown \/ animateCountdown
SpecCountdown == InitCountdown /\ [][NextCountdown]_vars

\* game over and restart with the mouse: the player moves the mouse while
\* the game-over panel is shown (to reach the restart button) and clicks
\* restart; the space bar is pressed between ticks; no bounce
RestartTicks == 250
RestartMouse == {500}
RestartWorlds ==
    {ss \in [1 .. WorldSegments -> {ObstacleAhead, CloverBesideObstacle, FullSample}] :
        /\ ss[1] # FullSample
        /\ \A i \in 2 .. WorldSegments : ss[i] = FullSample}
InitRestart == InitWith({0}, RestartWorlds)
onMouseMoveOver == isGameOver /\ onMouseMove(RestartMouse)
onKeyDownRestart == onKeyDown({"Space"})
animateRestart == animate({0}, {FullSample}, RestartTicks)
restartGameOver == RestartShown /\ restartGame({0}, RestartWorlds)
NextRestart ==
    countdownTick \/ onMouseMoveOver \/ onKeyDownRestart \/ animateRestart
        \/ restartGameOver
SpecRestart == InitRestart /\ [][NextRestart]_vars

\* refill: sparse worlds, in which generateWorld left segments empty, and
\* refill steps that create nothing or an obstacle beside a collectible; no
\* steering, no jump
RefillTicks == 30
RefillWorlds ==
    {ss \in [1 .. WorldSegments -> {ObstacleAhead, EmptySample, FullSample}] :
        /\ ss[1] \in {ObstacleAhead, EmptySample}
        /\ \A i \in 2 .. WorldSegments : ss[i] \in {EmptySample, FullSample}}
RefillSamples == {EmptySample, CloverBesideObstacle}
InitRefill == InitWith({0}, RefillWorlds)
animateRefill == animate({0}, RefillSamples, RefillTicks)
NextRefill == countdownTick \/ animateRefill
SpecRefill == InitRefill /\ [][NextRefill]_vars

\* restart as a lifecycle control that is invoked at any time, during the
\* countdown and while running as well; MaxDrivers caps the timers and frame
\* loops that pile up
MaxDrivers == 3
TeardownTicks == 8
restartGameAnyTime ==
    /\ countdownIntervals < MaxDrivers
    /\ pendingFrames < MaxDrivers
    /\ restartGame({0}, SteerWorlds)
animateTeardown == animate({0}, {FullSample}, TeardownTicks)
NextTeardown == countdownTick \/ animateTeardown \/ restartGameAnyTime
SpecTeardown == InitSteer /\ [][NextTeardown]_vars

\* a long run through dense worlds: every segment holds an obstacle in each
\* outer lane, with or without a collectible between them, and a refill
\* step creates such a segment or nothing; the character stays in the
\* middle lane, so the run lasts until segments pass the camera
ScrollTicks == 180
DenseSample ==
    [lanes |-> [l \in Lanes |-> TRUE], freeLane |-> 1, coll |-> [l \in Lanes |-> l = 1]]
ScrollWorlds == {[i \in 1 .. WorldSegments |-> s] : s \in {DenseSample, FullSample}}
ScrollSamples == {DenseSample, EmptySample}
InitScroll == InitWith({0}, ScrollWorlds)
animateScroll == animate({0}, ScrollSamples, ScrollTicks)
NextScroll == countdownTick \/ animateScroll
SpecScroll == InitScroll /\ [][NextScroll]_vars

\* the same run with its scheduling: while a frame is requested the browser
\* calls animate again, and while the interval is set its callback fires
SpecScrollFair ==
    SpecScroll /\ WF_vars(animateScroll) /\ WF_vars(countdownTick)

---------------------------------------------------------------------------
(* Properties of the world generator (SpecGen).                            *)

\* the indices of the entities of a sequence that lie at depth z
AtDepth(entities, z) == {k \in 1 .. Len(entities) : entities[k].z = z}

\* the lanes whose x is held by an entity of the sequence
LanesOf(entities) ==
    {l \in Lanes : \E k \in 1 .. Len(entities) : entities[k].x = getLanePosition(l)}

TrueCount(f) == Cardinality({l \in Lanes : f[l]})

\* C1: every generated segment, of generateWorld and of the refill in
\* moveObjects, keeps a lane without obstacle whatever the draws were: at no
\* depth do the active obstacles fill all LANE_COUNT lanes, the obstacles
\* created are those of the corrected array, and all of them are still in
\* the obstacle array when the handler returns (none is taken back).
C1_FreeLanePerSegment ==
    /\ \A k \in 1 .. Len(obstacles) :
          Cardinality(AtDepth(obstacles, obstacles[k].z)) < LANE_COUNT
    /\ \A i \in 1 .. Len(segLog) :
          /\ \E l \in Lanes : ~segLog[i].laneObstacles[l]
          /\ LanesOf(segLog[i].obstacles) = {l \in Lanes : segLog[i].laneObstacles[l]}
          /\ Cardinality(AtDepth(obstacles, segLog[i].z)) = Len(segLog[i].obstacles)

C1_Witness ==
    /\ op = "animate"
    /\ Len(segLog) = 1
    /\ EveryLane(segLog[1].sampled)
    /\ Cardinality(AtDepth(obstacles, segLog[1].z)) = LANE_COUNT - 1

\* C2: when every lane was sampled true exactly one lane is forced free and
\* the segment holds LANE_COUNT - 1 obstacles; otherwise the samples are
\* used as drawn and the segment holds one obstacle per lane sampled true.
C2_ExactlyOneForced ==
    \A i \in 1 .. Len(segLog) :
        LET g == segLog[i]
            n == Cardinality(AtDepth(obstacles, g.z))
        IN  IF EveryLane(g.sampled)
            THEN /\ Cardinality({l \in Lanes : g.sampled[l] # g.laneObstacles[l]}) = 1
                 /\ n = LANE_COUNT - 1
            ELSE /\ g.laneObstacles = g.sampled
                 /\ n = TrueCount(g.sampled)

C2_Witness ==
    /\ op = "init"
    /\ \E i \in 1 .. Len(segLog) :
          /\ EveryLane(segLog[i].sampled)
          /\ Cardinality(AtDepth(obstacles, segLog[i].z)) = 2
    /\ \E i \in 1 .. Len(segLog) :
          /\ TrueCount(segLog[i].sampled) = 1
          /\ Cardinality(AtDepth(obstacles, segLog[i].z)) = 1

\* C3: a collectible is created only in a lane of the segment that holds no
\* obstacle, in exactly the free lanes whose collectible draw succeeded (the
\* lane freed by the correction included), and no lane of a segment holds
\* two entities.
C3_CollectibleOnlyInFreeLane ==
    /\ \A k \in 1 .. Len(obstacles) : \A m \in 1 .. Len(collectibles) :
          ~(obstacles[k].x = collectibles[m].x /\ obstacles[k].z = collectibles[m].z)
    /\ \A i \in 1 .. Len(segLog) :
          LET g == segLog[i]
          IN  /\ LanesOf(g.collectibles) =
                    {l \in Lanes : ~g.laneObstacles[l] /\ g.coll[l]}
              /\ \A l \in Lanes :
                    Cardinality({k \in AtDepth(obstacles, g.z) :
                                    obstacles[k].x = getLanePosition(l)})
                    + Cardinality({k \in AtDepth(collectibles, g.z) :
                                    collectibles[k].x = getLanePosition(l)}) <= 1

\* the lane freed by the correction received a collectible
C3_Witness ==
    \E i \in 1 .. Len(segLog) :
        LET g == segLog[i]
        IN  /\ EveryLane(g.sampled)
            /\ \E l \in Lanes :
                  /\ ~g.laneObstacles[l]
                  /\ \E k \in AtDepth(collectibles, g.z) :
                        collectibles[k].x = getLanePosition(l)

---------------------------------------------------------------------------
(* Properties of the physics integrator (SpecSteer, SpecJump).             *)

\* (LANE_COUNT - 1) / 2 * LANE_WIDTH
LateralBound == ((LANE_COUNT - 1) * LANE_WIDTH) \div 2

InLateralRange(v) == -LateralBound <= v /\ v <= LateralBound

\* C4: whatever the mouse does, the lateral target and the x of the raccoon
\* stay within [-2, 2]; a tick that steers further outwards while the target
\* is at a bound leaves the target where it is, and leaves x where it is
\* when x already equals the target.
C4_LateralClamp ==
    /\ [](LateralBound = 2000 /\ InLateralRange(targetLanePosition)
                              /\ InLateralRange(raccoonX))
    /\ [][(op' = "animate" /\ ~isGameOver) =>
            /\ (targetLanePosition = LateralBound /\ mouseX > lastMouseX) =>
                  /\ targetLanePosition' = targetLanePosition
                  /\ (raccoonX = targetLanePosition => raccoonX' = raccoonX)
            /\ (targetLanePosition = -LateralBound /\ mouseX < lastMouseX) =>
                  /\ targetLanePosition' = targetLanePosition
                  /\ (raccoonX = targetLanePosition => raccoonX' = raccoonX)]_vars

\* a tick has consumed a move of the mouse to the right edge, and the target
\* and x both stand at the upper bound
C4_Witness ==
    /\ op = "animate"
    /\ lastMouseX = 1000
    /\ targetLanePosition = LateralBound
    /\ raccoonX = LateralBound

\* C5 as stated: the vertical position is never below the resting height.
C5_NeverBelowGround == raccoonY >= raccoonDefaultY

\* C5, amended: at the end of every tick the vertical position is at least
\* the resting height less the bounce amplitude 0.05; it is strictly above
\* the resting height while airborne, and within 0.05 of it while grounded.
C5_GroundWithinBounce ==
    /\ raccoonY >= raccoonDefaultY - 50
    /\ (op = "animate" /\ isJumping) => raccoonY > raccoonDefaultY
    /\ (op = "animate" /\ ~isJumping) => raccoonY <= raccoonDefaultY + 50

\* a grounded Running tick has left the raccoon below the resting height
C5_Witness ==
    /\ op = "animate"
    /\ isGameStarted
    /\ ~isJumping
    /\ jumpTicks > 0
    /\ raccoonY < raccoonDefaultY

\* a Running tick: animate() ran with the game started and not over
RunningTick == op' = "animate" /\ isGameStarted /\ ~isGameOver

\* C6: in a tick of a jump the airborne flag is cleared exactly when y +
\* velocity is at or below the resting height, and then the integration
\* leaves y at the resting height and the velocity at 0; otherwise y is the
\* sum, strictly above the resting height, the flag stays set and gravity is
\* taken off the velocity.  Outside a jump the integration changes nothing.
C6_LandingExact ==
    [][RunningTick =>
         IF isJumping
         THEN IF raccoonY + jumpVelocity <= raccoonDefaultY
              THEN /\ ~isJumping'
                   /\ physY' = raccoonDefaultY
                   /\ jumpVelocity' = 0
              ELSE /\ isJumping'
                   /\ physY' = raccoonY + jumpVelocity
                   /\ physY' > raccoonDefaultY
                   /\ raccoonY' = physY'
                   /\ jumpVelocity' = jumpVelocity - GRAVITY
         ELSE /\ ~isJumping'
              /\ physY' = raccoonY
              /\ jumpVelocity' = jumpVelocity]_vars

\* a jump has been integrated down to its landing
C6_Witness ==
    /\ op = "animate"
    /\ ~isJumping
    /\ jumpTicks > 1
    /\ physY = raccoonDefaultY
    /\ jumpVelocity = 0

\* ticks a jump from the resting height takes: 2 * JUMP_FORCE / GRAVITY + 1
NominalJumpTicks == (2 * JUMP_FORCE) \div GRAVITY + 1

Landed == ~isJumping /\ jumpTicks > 0

\* C7 as stated: every jump lands after the same number of ticks.
C7_SameTicksEveryJump == Landed => jumpTicks = NominalJumpTicks

\* C7, amended: every accepted jump lands within NominalJumpTicks + 1 ticks;
\* it takes NominalJumpTicks ticks when the body bounce had left y at or
\* below the resting height at the moment of the request, and one tick more
\* when it had left y above.
C7_LandsWithinBound ==
    /\ isJumping => jumpTicks <= NominalJumpTicks
    /\ Landed =>
          jumpTicks = IF jumpStartY <= raccoonDefaultY
                      THEN NominalJumpTicks ELSE NominalJumpTicks + 1

\* a jump requested with y above the resting height has landed
C7_Witness ==
    /\ Landed
    /\ jumpStartY > raccoonDefaultY
    /\ jumpTicks = 52

---------------------------------------------------------------------------
(* Properties of input handling, collision and lifecycle (Spec).           *)

\* C8: a key press never moves the raccoon; while airborne, before the
\* start or after game over it leaves the airborne flag and the velocity as
\* they are; and when it changes them it sets airborne with velocity
\* JUMP_FORCE.
C8_JumpOnlyWhenLegal ==
    [][op' = "onKeyDown" =>
         /\ raccoonY' = raccoonY
         /\ (isJumping \/ ~isGameStarted \/ isGameOver) =>
               (isJumping' = isJumping /\ jumpVelocity' = jumpVelocity)
         /\ (isJumping' # isJumping \/ jumpVelocity' # jumpVelocity) =>
               (isJumping' /\ jumpVelocity' = JUMP_FORCE)]_vars

\* a key was pressed during a jump whose velocity has already decayed
C8_Witness ==
    /\ op = "onKeyDown"
    /\ isJumping
    /\ jumpTicks > 0
    /\ jumpVelocity < JUMP_FORCE

Range(seq) == {seq[k] : k \in 1 .. Len(seq)}

\* the entities of a sequence one scroll step later
Advanced(entities) == {[x |-> e.x, z |-> e.z + GAME_SPEED] : e \in Range(entities)}

\* the collectibles that were in front of the recycle threshold after the
\* scroll of this tick and are gone at its end
Taken == {c \in Advanced(collectibles) : c.z <= RECYCLE_Z /\ c \notin Range(collectibles')}

\* C9: in a Running tick without obstacle collision exactly the collectibles
\* that intersect the raccoon are removed and the counter rises by their
\* number; what is left intersects nothing and is made of scrolled old and
\* newly generated collectibles only; no obstacle is lost, the lifecycle
\* stays, and within a run nothing else changes the counter.
C9_CollectExactlyOnce ==
    [][/\ (RunningTick /\ ~isGameOver') =>
            /\ \A c \in Taken : HitsCollectible(raccoonX', physY', c)
            /\ \A c \in Range(collectibles') : ~HitsCollectible(raccoonX', physY', c)
            /\ cloverCount' = cloverCount + Cardinality(Taken)
            /\ Range(collectibles') \subseteq
                  Advanced(collectibles) \cup
                  UNION {Range(segLog'[i].collectibles) : i \in 1 .. Len(segLog')}
            /\ Cardinality(Range(collectibles')) = Len(collectibles')
            /\ {o \in Advanced(obstacles) : o.z <= RECYCLE_Z} \subseteq Range(obstacles')
            /\ isGameStarted'
       /\ (cloverCount' # cloverCount) =>
            \/ op' = "restartGame"
            \/ (RunningTick /\ ~isGameOver' /\ Taken # {})]_vars

\* the collectible of the first segment has been collected
C9_Witness ==
    /\ op = "animate"
    /\ cloverCount = 1
    /\ collectibles = <<>>
    /\ ~isGameOver
    /\ obstacles # <<>>

GamePlayState ==
    <<score, cloverCount, obstacles, collectibles, isGameStarted, countdownValue,
      targetLanePosition, raccoonX, raccoonY, isJumping, jumpVelocity,
      gameOverCalls, finalScoreDisplay, finalCloverDisplay, gameOverDisplay,
      pendingFrames>>

\* C10: game over is entered only by a Running tick in which an obstacle
\* intersects the raccoon, and once per run; from then until restart the
\* lifecycle stays game over, no frame is pending and no tick runs, and no
\* handler changes the state of the game.
C10_GameOverOnce ==
    /\ [](/\ gameOverCalls <= 1
          /\ isGameOver <=> gameOverCalls = 1
          /\ isGameOver => (pendingFrames = 0 /\ gameOverDisplay))
    /\ [][(~isGameOver /\ isGameOver') =>
            /\ RunningTick
            /\ \E k \in 1 .. Len(obstacles') :
                  HitsObstacle(raccoonX', physY', obstacles'[k])]_vars
    /\ [][isGameOver =>
            \/ op' = "restartGame"
            \/ (isGameOver' /\ op' # "animate" /\ UNCHANGED GamePlayState)]_vars

\* a handler ran after the collision and the game is still over
C10_Witness ==
    /\ isGameOver
    /\ gameOverCalls = 1
    /\ op = "onKeyDown"
    /\ pendingFrames = 0

---------------------------------------------------------------------------
(* Properties of restart (SpecRestart, Spec).                              *)

\* C12: when restartGame() returns the game is in its initial state: the
\* distance score and the collection counter are 0, the raccoon is at x = 0
\* and at the resting height with lateral target 0, not airborne and with
\* velocity 0, the game is not over and the countdown stands at 3.
C12_RestartResets ==
    op = "restartGame" =>
        /\ score = 0
        /\ cloverCount = 0
        /\ raccoonX = 0
        /\ raccoonY = raccoonDefaultY
        /\ targetLanePosition = 0
        /\ ~isJumping
        /\ jumpVelocity = 0
        /\ ~isGameOver
        /\ ~isGameStarted
        /\ countdownValue = COUNTDOWN_START

\* C13: right after init(), at load and at every restart, the obstacle and
\* collectible arrays hold the entities generateWorld has just created and
\* nothing else, and no obstacle lies within SAFE_START_DISTANCE ahead of the
\* raccoon: every obstacle has z <= RACCOON_Z - SAFE_START_DISTANCE.
C13_SafeStartZone ==
    op \in {"init", "restartGame"} =>
        /\ Range(obstacles) =
              UNION {Range(segLog[i].obstacles) : i \in 1 .. Len(segLog)}
        /\ Range(collectibles) =
              UNION {Range(segLog[i].collectibles) : i \in 1 .. Len(segLog)}
        /\ \A k \in 1 .. Len(obstacles) :
              obstacles[k].z <= RACCOON_Z - SAFE_START_DISTANCE

---------------------------------------------------------------------------
(* Properties of scoring and of the lifecycle (Spec).                      *)

\* C14: every Running tick adds the same increment 0.1 to the distance
\* score, whether it collects, collides or meets nothing; nothing else
\* changes the score except the reset to 0 of a restart, so it never
\* decreases within a run; the collection counter rises only in a tick that
\* collects and is otherwise changed only by the reset of a restart.
C14_ScoreIndependentOfCollection ==
    [][/\ RunningTick => score' = score + SCORE_STEP
       /\ (score' # score) =>
              \/ RunningTick /\ score' > score
              \/ op' = "restartGame" /\ score' = 0
       /\ (RunningTick /\ Taken = {}) => cloverCount' = cloverCount
       /\ (cloverCount' # cloverCount) =>
              \/ RunningTick /\ Taken # {} /\ cloverCount' > cloverCount
              \/ op' = "restartGame" /\ cloverCount' = 0]_vars

\* a tick has collected a clover and the score stands at a whole number of
\* increments
C14_Witness ==
    /\ op = "animate"
    /\ isGameStarted
    /\ cloverCount = 1
    /\ score > 0
    /\ score % SCORE_STEP = 0
    /\ \A m \in 1 .. Len(collectibles) :
          ~HitsCollectible(raccoonX, physY, collectibles[m])

\* the state the countdown keeps from the ticks and the key presses
GatedState ==
    <<obstacles, collectibles, isGameStarted, isGameOver, countdownValue, score,
      cloverCount, isJumping, jumpVelocity, gameOverCalls, jumpTicks, pendingFrames>>

\* C15 (SpecCountdown): a tick before the start steers (the target takes the
\* mouse movement, within the lane bounds, and x moves towards the target
\* without passing it) and changes nothing of the game: no entity moves, is
\* removed or created, the lifecycle, the score, the counter and the jump
\* state stay; a key press before the start changes nothing either, so the
\* raccoon is never airborne before the start.
C15_CountdownGatesGameplay ==
    /\ []((~isGameStarted) => (~isJumping /\ jumpVelocity = 0 /\ ~isGameOver
                                 /\ score = 0 /\ cloverCount = 0))
    /\ [][(op' = "animate" /\ ~isGameStarted) =>
            /\ targetLanePosition' =
                  Max2(-LateralBound,
                       Min2(LateralBound, targetLanePosition + 3 * (mouseX - lastMouseX)))
            /\ (raccoonX # targetLanePosition') =>
                  Abs(targetLanePosition' - raccoonX') < Abs(targetLanePosition' - raccoonX)
            /\ (raccoonX = targetLanePosition') => raccoonX' = raccoonX
            /\ (raccoonX' - targetLanePosition') * (raccoonX - targetLanePosition') >= 0
            /\ segLog' = <<>>
            /\ UNCHANGED GatedState]_vars
    /\ [][(op' = "onKeyDown" /\ ~isGameStarted) =>
            UNCHANGED <<GatedState, raccoonX, raccoonY, targetLanePosition>>]_vars

\* the space bar was pressed during the countdown, after ticks that have
\* steered the raccoon away from the middle
C15_Witness ==
    /\ op = "onKeyDown"
    /\ ~isGameStarted
    /\ countdownValue = 1
    /\ targetLanePosition = 1500
    /\ raccoonX > 0
    /\ raccoonX < targetLanePosition
    /\ ~isJumping

\* C16: init(), at load and at restart, leaves the countdown at 3 with the
\* game not started; every firing of the timer takes exactly 1 off the value
\* and nothing else changes it, however many ticks run in between; the game
\* is started by the firing that brings the value to 0 and by nothing else,
\* and from that firing until the next restart no timer is live.
C16_CountdownByTimerOnly ==
    /\ [](/\ countdownValue \in 0 .. COUNTDOWN_START
          /\ isGameStarted <=> countdownValue = 0
          /\ countdownIntervals = IF isGameStarted THEN 0 ELSE 1
          /\ op \in {"init", "restartGame"} => countdownValue = COUNTDOWN_START)
    /\ [][op' = "countdown" =>
            (~isGameStarted /\ countdownValue' = countdownValue - 1)]_vars
    /\ [][(countdownValue' # countdownValue) =>
            \/ op' = "countdown"
            \/ op' = "restartGame" /\ countdownValue' = COUNTDOWN_START]_vars
    /\ [][(isGameStarted' # isGameStarted) =>
            \/ op' = "countdown" /\ countdownValue' = 0 /\ isGameStarted'
            \/ op' = "restartGame" /\ ~isGameStarted']_vars

\* the countdown of a restarted game has just finished
C16_Witness ==
    /\ op = "countdown"
    /\ isGameStarted
    /\ countdownValue = 0
    /\ countdownIntervals = 0
    /\ finalScoreDisplay > 0
    /\ score = 0

\* C17 (SpecTeardown): whenever restart is invoked, at most one countdown
\* interval is live and at most one frame callback is pending, so that one
\* firing per second drives the countdown and one pass of animate() runs per
\* display frame.
C17_SingleDriver ==
    /\ countdownIntervals <= 1
    /\ pendingFrames <= 1

Lifecycle ==
    IF isGameOver THEN "GameOver"
    ELSE IF isGameStarted THEN "Running"
    ELSE "Countdown"

\* C18: the game starts in Countdown(3); the lifecycle and the countdown
\* value change only by a timer firing that takes the countdown one down
\* (into Running when it reaches 0), by a Running tick in which an obstacle
\* intersects the raccoon (into GameOver), and by a restart from GameOver
\* (into Countdown(3)); the game is never over without having started.
C18_LifecycleOrder ==
    /\ [](/\ isGameOver => isGameStarted
          /\ op = "init" => (Lifecycle = "Countdown" /\ countdownValue = COUNTDOWN_START)
          /\ Lifecycle = "Countdown" <=> countdownValue \in 1 .. COUNTDOWN_START)
    /\ [][(Lifecycle' # Lifecycle \/ countdownValue' # countdownValue) =>
            \/ /\ op' = "countdown"
               /\ Lifecycle = "Countdown"
               /\ countdownValue' = countdownValue - 1
               /\ Lifecycle' = IF countdownValue = 1 THEN "Running" ELSE "Countdown"
            \/ /\ op' = "animate"
               /\ Lifecycle = "Running"
               /\ Lifecycle' = "GameOver"
               /\ countdownValue' = countdownValue
               /\ \E k \in 1 .. Len(obstacles') :
                     HitsObstacle(raccoonX', physY', obstacles'[k])
            \/ /\ op' = "restartGame"
               /\ Lifecycle = "GameOver"
               /\ Lifecycle' = "Countdown"
               /\ countdownValue' = COUNTDOWN_START]_vars

\* the cycle is closed: a run that went through the countdown into Running
\* and GameOver has been restarted into Countdown(3)
C18_Witness ==
    /\ op = "restartGame"
    /\ Lifecycle = "Countdown"
    /\ countdownValue = COUNTDOWN_START
    /\ finalScoreDisplay > 0
    /\ gameOverCalls = 0
    /\ ~gameOverDisplay

---------------------------------------------------------------------------
(* Properties of the refill (SpecRefill).                                  *)

\* the z, after the scroll of this tick, of the entities that stay active
ActiveZs ==
    {e.z : e \in {a \in Advanced(obstacles) \cup Advanced(collectibles) :
                    a.z <= RECYCLE_Z}}

MinOf(S) == CHOOSE m \in S : \A n \in S : m <= n

\* a tick of the started game in which the refill ran a generation step
RefillStep == RunningTick /\ Len(segLog') = 1

\* C19 as stated: the segment generated by a refill lies OBSTACLE_DISTANCE
\* beyond the farthest active entity whenever an entity is active, and
\* OBSTACLE_DISTANCE beyond the safe-start default z only when none is.
C19_BaseIsMinOfEntities ==
    [][RefillStep =>
         segLog'[1].z = (IF ActiveZs # {} THEN MinOf(ActiveZs) ELSE FirstSegmentZ)
                           - OBSTACLE_DISTANCE]_vars

\* C19, amended: the base of the new segment is the smaller of the farthest
\* active z and the safe-start default z = -25: the segment lies
\* OBSTACLE_DISTANCE beyond the farthest active entity when that entity is
\* at or beyond the default z, and at -45 when every active entity is
\* nearer than the default z or none is active; what the step creates is at
\* that z.
C19_BaseIsMinWithDefault ==
    [][RefillStep =>
         /\ segLog'[1].z = MinOf(ActiveZs \cup {FirstSegmentZ}) - OBSTACLE_DISTANCE
         /\ (ActiveZs # {} /\ MinOf(ActiveZs) <= FirstSegmentZ) =>
               segLog'[1].z = MinOf(ActiveZs) - OBSTACLE_DISTANCE
         /\ (\A z \in ActiveZs : z > FirstSegmentZ) =>
               segLog'[1].z = FirstSegmentZ - OBSTACLE_DISTANCE
         /\ \A e \in Range(segLog'[1].obstacles) \cup Range(segLog'[1].collectibles) :
               e.z = segLog'[1].z
         /\ Range(segLog'[1].obstacles) \subseteq Range(obstacles')]_vars

\* a refill has created a segment at -45 while an obstacle, nearer than the
\* default z, was active
C19_Witness ==
    /\ op = "animate"
    /\ Len(segLog) = 1
    /\ segLog[1].z = FirstSegmentZ - OBSTACLE_DISTANCE
    /\ segLog[1].obstacles # <<>>
    /\ \E k \in 1 .. Len(obstacles) :
          obstacles[k].z > FirstSegmentZ /\ obstacles[k].z <= RECYCLE_Z

\* the base of the generation step of this tick
RefillBase == MinOf(ActiveZs \cup {FirstSegmentZ})

\* C20 as stated: generateWorld and the refill share one far boundary,
\* z > -WORLD_DEPTH + 15: no entity is ever created at or beyond it, and a
\* refill whose segment would lie at or beyond it creates nothing.
C20_SameFarBoundary ==
    /\ [](/\ \A k \in 1 .. Len(obstacles) : obstacles[k].z > WorldFarZ
          /\ \A m \in 1 .. Len(collectibles) : collectibles[m].z > WorldFarZ)
    /\ [][(RunningTick /\ RefillBase - OBSTACLE_DISTANCE <= WorldFarZ) =>
            segLog' = <<>>]_vars

\* C20, amended: the far boundary of the refill is -WORLD_DEPTH, tested on
\* the base as lastZ > -WORLD_DEPTH + 20, and differs from that of
\* generateWorld: generateWorld creates at z > -WORLD_DEPTH + 15 only, a
\* refill creates at z > -WORLD_DEPTH only, so no entity ever lies at or
\* beyond -WORLD_DEPTH; in a tick whose base is at or beyond
\* -WORLD_DEPTH + 20 the refill creates nothing.
C20_FarBoundaryIsWorldDepth ==
    /\ [](/\ \A k \in 1 .. Len(obstacles) : obstacles[k].z > -WORLD_DEPTH
          /\ \A m \in 1 .. Len(collectibles) : collectibles[m].z > -WORLD_DEPTH
          /\ \A i \in 1 .. Len(segLog) :
                segLog[i].z > IF op = "animate" THEN -WORLD_DEPTH ELSE WorldFarZ)
    /\ [][RunningTick =>
            /\ (segLog' # <<>>) => RefillBase > RefillFarZ
            /\ (RefillBase <= RefillFarZ) =>
                  /\ segLog' = <<>>
                  /\ Range(obstacles') \subseteq Advanced(obstacles)
                  /\ Range(collectibles') \subseteq Advanced(collectibles)]_vars

\* a refill has created an obstacle beyond the far boundary of generateWorld
C20_Witness ==
    /\ op = "animate"
    /\ Len(segLog) = 1
    /\ segLog[1].z <= WorldFarZ
    /\ \E k \in 1 .. Len(obstacles) : obstacles[k].z = segLog[1].z

---------------------------------------------------------------------------
(* Properties of the scrolling world (SpecScroll).                         *)

\* the entities of the segment that the refill of the tick created
Created(field) ==
    IF Len(segLog') = 0 THEN {}
    ELSE Range(IF field = "obstacles" THEN segLog'[1].obstacles
                                      ELSE segLog'[1].collectibles)

\* the advanced entities that stay at or before the threshold
Kept(entities) == {e \in Advanced(entities) : e.z <= RECYCLE_Z}

\* C21: no active obstacle or collectible lies beyond the recycle threshold;
\* in a running tick every active entity advances by exactly GAME_SPEED, the
\* entities left active are exactly the advanced ones at or before the
\* threshold (less the collectibles collected in the tick) and the segment
\* created in the tick, none skipped, none moved twice, none duplicated
C21_RecycleBeyondThreshold ==
    /\ [](/\ \A k \in 1 .. Len(obstacles) : obstacles[k].z <= RECYCLE_Z
          /\ \A k \in 1 .. Len(collectibles) : collectibles[k].z <= RECYCLE_Z)
    /\ [][RunningTick =>
            /\ Range(obstacles') = Kept(obstacles) \cup Created("obstacles")
            /\ Len(obstacles') = Cardinality(Range(obstacles'))
            /\ Range(collectibles') =
                   (Kept(collectibles) \ Taken) \cup Created("collectibles")
            /\ Len(collectibles') = Cardinality(Range(collectibles'))
            /\ \A c \in Taken : HitsCollectible(raccoonX', physY', c)]_vars

\* a running tick has just removed the two obstacles of the nearest segment
\* together: the nearest obstacles left are those of the segment behind it
C21_Witness ==
    /\ op = "animate" /\ isGameStarted /\ ~isGameOver
    /\ Len(obstacles) > 0
    /\ \A k \in 1 .. Len(obstacles) :
          obstacles[k].z <= RECYCLE_Z + GAME_SPEED - OBSTACLE_DISTANCE
    /\ Cardinality(AtDepth(obstacles, RECYCLE_Z + GAME_SPEED - OBSTACLE_DISTANCE)) = 2

\* the depths at which an entity is active
Depths == {e.z : e \in Range(obstacles) \cup Range(collectibles)}

\* C22: no two active entities, obstacles and collectibles taken together,
\* share both lane (x) and depth (z)
C22_NoTwoEntitiesSamePlace ==
    /\ Cardinality(Range(obstacles) \cup Range(collectibles))
           = Len(obstacles) + Len(collectibles)
    /\ \A j, k \in 1 .. Len(obstacles) :
           (obstacles[j].x = obstacles[k].x /\ obstacles[j].z = obstacles[k].z) => j = k
    /\ \A j, k \in 1 .. Len(collectibles) :
           (collectibles[j].x = collectibles[k].x /\ collectibles[j].z = collectibles[k].z)
               => j = k
    /\ \A j \in 1 .. Len(obstacles), k \in 1 .. Len(collectibles) :
           ~(obstacles[j].x = collectibles[k].x /\ obstacles[j].z = collectibles[k].z)

\* a segment has been recycled and a collectible collected, and the tick
\* has created a segment of three entities as the fifth active depth
C22_Witness ==
    /\ op = "animate" /\ isGameStarted /\ ~isGameOver
    /\ cloverCount > 0
    /\ score > ((RECYCLE_Z - FirstSegmentZ) \div GAME_SPEED) * SCORE_STEP
    /\ Len(segLog) = 1
    /\ Len(segLog[1].obstacles) + Len(segLog[1].collectibles) = LANE_COUNT
    /\ Cardinality(Depths) >= 5

---------------------------------------------------------------------------
(* Properties of the lane geometry and of steering (SpecSteer).            *)

\* C23: getLanePosition(lane) is (lane - (LANE_COUNT - 1) / 2) * LANE_WIDTH
\* (stated doubled, to stay in integers): the centre lane lies at 0,
\* neighbouring lanes lie LANE_WIDTH apart, every lane lies inside the range
\* of the lateral clamp and the two outermost lanes lie on its bounds; every
\* active entity is at such a position, inside the range the character
\* moves in
C23_LanePositions ==
    /\ \A l \in Lanes :
          /\ 2 * getLanePosition(l) = (2 * l - (LANE_COUNT - 1)) * LANE_WIDTH
          /\ Clamp(getLanePosition(l)) = getLanePosition(l)
          /\ l > 0 => getLanePosition(l) - getLanePosition(l - 1) = LANE_WIDTH
    /\ getLanePosition((LANE_COUNT - 1) \div 2) = 0
    /\ getLanePosition(0) = Clamp(getLanePosition(0) - LANE_WIDTH)
    /\ getLanePosition(LANE_COUNT - 1) = Clamp(getLanePosition(LANE_COUNT - 1) + LANE_WIDTH)
    /\ \A e \in Range(obstacles) \cup Range(collectibles) :
          /\ \E l \in Lanes : 2 * e.x = (2 * l - (LANE_COUNT - 1)) * LANE_WIDTH
          /\ Clamp(e.x) = e.x
    /\ Clamp(raccoonX) = raccoonX

\* the character stands at the centre of an outermost lane, in which an
\* obstacle is active
C23_Witness ==
    /\ op = "animate"
    /\ raccoonX = getLanePosition(LANE_COUNT - 1)
    /\ \E k \in 1 .. Len(obstacles) : obstacles[k].x = raccoonX

\* C24: in every tick before game over the target is inside the clamp range
\* and x moves toward it by a tenth of the remaining error (up to the
\* rounding of a thousandth): x neither passes the target nor moves away
\* from it, the change of x is at most a tenth of the width of the clamp
\* range, and while the target is unchanged the distance to it does not grow
C24_SmoothedSteering ==
    [][(op' = "animate" /\ ~isGameOver) =>
          LET t == targetLanePosition'
              d == t - raccoonX
              m == raccoonX' - raccoonX
          IN  /\ InLateralRange(t)
              /\ d >= 0 => (0 <= m /\ m <= d)
              /\ d <= 0 => (d <= m /\ m <= 0)
              /\ Abs(d) <= 10 * Abs(m) /\ 10 * Abs(m) < Abs(d) + 10
              /\ 10 * Abs(m) <= 2 * LateralBound
              /\ t = targetLanePosition =>
                     Abs(t - raccoonX') <= Abs(targetLanePosition - raccoonX)]_vars

\* the largest step: from one bound of the range toward a target at the
\* other bound, x has moved a tenth of the width of the range
C24_Witness ==
    /\ op = "animate"
    /\ targetLanePosition = LateralBound
    /\ raccoonX = -LateralBound + (2 * LateralBound) \div 10

---------------------------------------------------------------------------
(* Properties of the refill over a run (SpecScrollFair, SpecScroll).       *)

\* the number of ticks in which the world scrolls by one segment spacing
SpacingTicks == OBSTACLE_DISTANCE \div GAME_SPEED

\* a running tick in which the refill did not invoke the generation, early
\* enough for the run followed to hold SpacingTicks + 1 further ticks
QuietTick ==
    /\ op = "animate" /\ isGameStarted /\ ~isGameOver
    /\ segLog = <<>>
    /\ score <= (ScrollTicks - SpacingTicks - 1) * SCORE_STEP

\* a running tick in which the refill invoked the generation
GenerationTick ==
    op = "animate" /\ isGameStarted /\ ~isGameOver /\ Len(segLog) = 1

\* C25: while the run lasts, a tick without a generation step is followed
\* by a later tick with one (a tick with one is followed by a tick, which
\* is either of the two), and no tick generates more than one segment
C25_GenerationRecurs ==
    /\ [][RunningTick => Len(segLog') <= 1]_vars
    /\ QuietTick ~> GenerationTick

\* a generation step more than a segment spacing of scrolling into the
\* run, after ticks without one
C25_Witness ==
    /\ GenerationTick
    /\ score > (SpacingTicks + 1) * SCORE_STEP
    /\ segLog[1].z < RefillFarZ

---------------------------------------------------------------------------
(* Properties of the population of the world (SpecScroll).                 *)

MaxDepths == (RECYCLE_Z + WORLD_DEPTH) \div OBSTACLE_DISTANCE + 1

\* C27: obstacles and collectibles together number at most MaxDepths *
\* LANE_COUNT = 18, below the pool target; in every running tick the pool
\* test of the refill is passed, and the generation step is taken exactly
\* when the base lies above the far boundary of the refill
C27_PoolNeverFull ==
    /\ [](/\ Cardinality(Depths) <= MaxDepths
          /\ Len(obstacles) + Len(collectibles) <= MaxDepths * LANE_COUNT
          /\ Len(obstacles) + Len(collectibles) < POOL_TARGET)
    /\ [][RunningTick =>
            /\ Cardinality(Kept(obstacles)) + Cardinality(Kept(collectibles))
                   < POOL_TARGET
            /\ (Len(segLog') = 1) <=> (RefillBase > RefillFarZ)]_vars

\* the largest population: MaxDepths depths of LANE_COUNT entities each
C27_Witness ==
    /\ op = "animate" /\ isGameStarted /\ ~isGameOver
    /\ Cardinality(Depths) = MaxDepths
    /\ Len(obstacles) + Len(collectibles) = MaxDepths * LANE_COUNT

---------------------------------------------------------------------------
(* Properties of the score at game over (Spec).                            *)

\* C28 as stated: the tick that detects the collision does not increment
\* the score, the score does not change while the game is over, and the
\* panel holds the rounded score and the clover count of the state
C28_ScoreFrozenAtGameOver ==
    /\ [](isGameOver =>
            /\ finalScoreDisplay = Round(score)
            /\ finalCloverDisplay = cloverCount)
    /\ [][(op' = "animate" /\ isGameOver') => score' = score]_vars

====
